---- MODULE Spec2Model ----
(***************************************************************************)
(* Model of the dataset preparation scripts                                *)
(*   normalize/normalize_and_split_images.py                               *)
(*   normalize/normalize_and_reencode_and_split_videos.py                  *)
(* Two specifications:                                                     *)
(*   SplitSpec - split_list called on one list object (pure function)      *)
(*   Spec      - one run of main() of either script                        *)
(***************************************************************************)
EXTENDS Integers, Sequences, FiniteSets, TLC

(***************************************************************************)
(* Bounds                                                                  *)
(***************************************************************************)
\* longest item list handed to split_list in SplitSpec
MaxLen == 30
\* list lengths up to which every outcome of the generator is explored
FullDrawLen == 3
\* calls of split_list made on one list object in SplitSpec
MaxCalls == 2
\* media files in the source tree of one run
MaxItems == 4

(***************************************************************************)
(* Arbitrary-precision naturals as little-endian bit sequences (the floats *)
(* of the scripts are IEEE-754 binary64; their 53-bit significands do not  *)
(* fit 32-bit integers).  The arithmetic works on limbs of                 *)
(* LimbBits bits to keep the recursions short.                             *)
(***************************************************************************)
LimbBits == 10

Base == 1024

Pow2 == <<1, 2, 4, 8, 16, 32, 64, 128, 256, 512>>

\* drop the zero digits above the top nonzero digit
Trim(b) ==
  LET S == {i \in 1..Len(b) : b[i] # 0}
  IN  IF S = {} THEN <<>>
      ELSE SubSeq(b, 1, CHOOSE i \in S : \A j \in S : j <= i)

Bit(b, i) == IF i <= Len(b) THEN b[i] ELSE 0

\* 10 bits to one limb, spelled out
ToLimbs(b) ==
  [j \in 1..((Len(b) + LimbBits - 1) \div LimbBits) |->
     LET o == LimbBits * (j - 1)
     IN  Bit(b, o + 1) + 2 * Bit(b, o + 2) + 4 * Bit(b, o + 3)
         + 8 * Bit(b, o + 4) + 16 * Bit(b, o + 5) + 32 * Bit(b, o + 6)
         + 64 * Bit(b, o + 7) + 128 * Bit(b, o + 8) + 256 * Bit(b, o + 9)
         + 512 * Bit(b, o + 10)]

ToBits(l) ==
  Trim([i \in 1..(LimbBits * Len(l)) |->
          (l[((i - 1) \div LimbBits) + 1] \div Pow2[((i - 1) % LimbBits) + 1]) % 2])

RECURSIVE NatToLimbs(_)
NatToLimbs(n) == IF n = 0 THEN <<>> ELSE <<n % Base>> \o NatToLimbs(n \div Base)

RECURSIVE LimbsToNat(_)
LimbsToNat(l) == IF l = <<>> THEN 0 ELSE l[1] + Base * LimbsToNat(Tail(l))

NatToBits(n) == ToBits(NatToLimbs(n))

BitsToNat(b) == LimbsToNat(ToLimbs(b))

Zeros(k) == [i \in 1..k |-> 0]

Shl(b, k) == IF b = <<>> THEN <<>> ELSE Zeros(k) \o b

Rest(l) == IF l = <<>> THEN <<>> ELSE Tail(l)

Low(l) == IF l = <<>> THEN 0 ELSE Head(l)

RECURSIVE LAddC(_, _, _)
LAddC(a, b, c) ==
  IF a = <<>> /\ b = <<>> THEN (IF c = 0 THEN <<>> ELSE <<c>>)
  ELSE LET t == Low(a) + Low(b) + c
       IN  <<t % Base>> \o LAddC(Rest(a), Rest(b), t \div Base)

BAdd(a, b) == ToBits(LAddC(ToLimbs(a), ToLimbs(b), 0))

\* a - b for a >= b
RECURSIVE LSubC(_, _, _)
LSubC(a, b, c) ==
  IF a = <<>> THEN <<>>
  ELSE LET t == Low(a) - Low(b) - c
       IN  <<(t + Base) % Base>> \o LSubC(Rest(a), Rest(b), IF t < 0 THEN 1 ELSE 0)

BSub(a, b) == ToBits(LSubC(ToLimbs(a), ToLimbs(b), 0))

\* a * n for a small n
RECURSIVE LMulC(_, _, _)
LMulC(a, n, c) ==
  IF a = <<>> THEN NatToLimbs(c)
  ELSE LET t == n * Head(a) + c
       IN  <<t % Base>> \o LMulC(Tail(a), n, t \div Base)

BMulSmall(a, n) == ToBits(LMulC(ToLimbs(a), n, 0))

\* -1, 0, 1 as a < b, a = b, a > b: the top digit that differs decides
BCmp(a, b) ==
  LET x == Trim(a)
      y == Trim(b)
      D == {i \in 1..Len(x) : x[i] # y[i]}
  IN  IF Len(x) < Len(y) THEN -1
      ELSE IF Len(x) > Len(y) THEN 1
      ELSE IF D = {} THEN 0
      ELSE LET i == CHOOSE k \in D : \A j \in D : j <= k
           IN  IF x[i] < y[i] THEN -1 ELSE 1

\* long division by a small divisor d, from the top limb a[i] down, r the
\* remainder so far: the quotient's limbs, top limb first
RECURSIVE LDivFrom(_, _, _, _)
LDivFrom(a, d, i, r) ==
  IF i = 0 THEN <<>>
  ELSE LET t == Base * r + a[i]
       IN  <<t \div d>> \o LDivFrom(a, d, i - 1, t % d)

Reverse(s) == [i \in 1..Len(s) |-> s[Len(s) + 1 - i]]

\* floor(a / d)
BDivSmall(a, d) ==
  LET l == ToLimbs(a)
  IN  ToBits(Reverse(LDivFrom(l, d, Len(l), 0)))

(***************************************************************************)
(* binary64 values >= 0: [m, e] stands for m * 2^e, m of at most 53 bits.  *)
(* Every operation computes the exact result and rounds it to nearest,     *)
(* ties to even, as the hardware does.                                     *)
(***************************************************************************)
Mant == 53

Round(m0, e, sticky) ==
  LET m == Trim(m0)
      L == Len(m)
      d == L - Mant
  IN  IF d <= 0 THEN [m |-> m, e |-> e]
      ELSE LET kept  == SubSeq(m, d + 1, L)
               guard == m[d]
               st    == sticky \/ (\E i \in 1..(d - 1) : m[i] = 1)
               up    == guard = 1 /\ (st \/ kept[1] = 1)
           IN  [m |-> IF up THEN BAdd(kept, <<1>>) ELSE kept, e |-> e + d]

Min(a, b) == IF a < b THEN a ELSE b

\* the significand of x at exponent e <= x.e
At(x, e) == Shl(x.m, x.e - e)

FromInt(n) == [m |-> NatToBits(n), e |-> 0]

\* a decimal literal p/q of the source text, correctly rounded
FromDecimal(p, q) ==
  LET k  == 64 + Len(NatToBits(q))
      a  == Shl(NatToBits(p), k)
      qt == BDivSmall(a, q)
  IN  Round(qt, 0 - k, BCmp(BMulSmall(qt, q), a) # 0)

FAdd(x, y) ==
  LET e == Min(x.e, y.e)
  IN  Round(BAdd(At(x, e), At(y, e)), e, FALSE)

\* abs(x - y)
FAbsDiff(x, y) ==
  LET e == Min(x.e, y.e)
      a == At(x, e)
      b == At(y, e)
  IN  Round(IF BCmp(a, b) >= 0 THEN BSub(a, b) ELSE BSub(b, a), e, FALSE)

FLess(x, y) ==
  LET e == Min(x.e, y.e)
  IN  BCmp(At(x, e), At(y, e)) < 0

\* n * x for an int n (converted exactly) and a float x
FMulInt(n, x) == Round(BMulSmall(x.m, n), x.e, FALSE)

\* int(x): truncation toward zero
FTrunc(x) ==
  IF x.e >= 0 THEN BitsToNat(Shl(x.m, x.e))
  ELSE IF 0 - x.e >= Len(x.m) THEN 0
  ELSE BitsToNat(SubSeq(x.m, 1 - x.e, Len(x.m)))

(***************************************************************************)
(* State                                                                   *)
(***************************************************************************)
VARIABLES
  \* the outputs of random.Random(seed) observed so far: a generator is a
  \* fixed but unknown function of its seed
  mt,
  \* SplitSpec: the module whose split_list is called, the caller's list
  \* object, the arguments, and the calls made so far
  sl_impl, sl_items, sl_ratios, sl_seed, sl_calls,
  \* Spec, the run's inputs: the script, --dry_run, --seed, whether src_root
  \* exists, the source tree in os.walk order, what is installed on the host
  kind, dry_run, seed, src_exists, tree, ffmpeg_installed, cv2_installed,
  \* Spec, main's state: its position, files_by_class, use_ffmpeg and how
  \* often it was probed, the classes already split, the (split, item) pairs
  \* of the current class still to visit, every pair planned so far, counts
  pc, files_by_class, use_ffmpeg, probes, nclasses, todo, planned, counts,
  \* Spec, the effects: directories and files created under output_root, the
  \* transform calls made, the media handles that are open
  fs_dirs, fs_files, calls, open

slvars == <<sl_impl, sl_items, sl_ratios, sl_seed, sl_calls>>

envvars == <<kind, dry_run, seed, src_exists, tree, ffmpeg_installed, cv2_installed>>

mainvars == <<pc, files_by_class, use_ffmpeg, probes, nclasses, todo, planned, counts>>

fxvars == <<fs_dirs, fs_files, calls, open>>

vars == <<mt, slvars, envvars, mainvars, fxvars>>

KINDS == {"images", "videos"}

\* values of --seed
Seeds == {7, 42}

\* ratios in tenths: <<7, 2, 1>> is the literal (0.7, 0.2, 0.1)
DefaultRatios == <<7, 2, 1>>

RatioSets == {DefaultRatios, <<5, 3, 2>>, <<5, 3, 3>>}

\* the float of the literal 0.t, computed once for every t
RatioTable == [t \in 0..10 |-> FromDecimal(t, 10)]

Ratio(t) == RatioTable[t]

Range(s) == {s[i] : i \in 1..Len(s)}

(***************************************************************************)
(* random.Random(seed).shuffle(items)                                      *)
(* shuffle is CPython's Fisher-Yates loop                                  *)
(*   for i in reversed(range(1, len(x))): j = randbelow(i + 1); swap i, j  *)
(* and a draw sequence d holds the values of j in the order drawn.         *)
(***************************************************************************)
\* every draw sequence for a list of n items: the t-th draw is below n-t+1
RECURSIVE AllDraws(_)
AllDraws(n) ==
  IF n <= 1 THEN {<<>>}
  ELSE {<<j>> \o r : j \in 0..(n - 1), r \in AllDraws(n - 1)}

\* the draws explored for a list of n items: all of them up to FullDrawLen
\* items; for a longer list the draws of the first n - FullDrawLen steps are
\* all 0 or all i (the two extremes), the remaining ones are arbitrary
DrawSeqs(n) ==
  IF n <= FullDrawLen THEN AllDraws(n)
  ELSE {[t \in 1..(n - FullDrawLen) |-> IF c = "first" THEN 0 ELSE n - t] \o r :
          c \in {"first", "self"}, r \in AllDraws(FullDrawLen)}

\* one generator seeded once and shared by all calls: each shuffle continues
\* where the previous one stopped
GeneratorKeyShared(sd, used) == <<sd, used>>

\* the generator that split_list shuffles with, after `used` earlier shuffles:
\* random.Random(sd) is a new generator at its first output
GeneratorKey(sd, used) == <<sd, 0>>

\* the draw sequences generator `key` can still produce for n items
Generated(key, n) ==
  {d \in DrawSeqs(n) : \A g \in mt : (g.key = key /\ g.n = n) => g.d = d}

Swap(x, i, j) == [x EXCEPT ![i] = x[j], ![j] = x[i]]

Assign(x, i, j) == [x EXCEPT ![i] = x[j]]

\* a loop that copies x[j] to x[i] without storing x[i] back
RECURSIVE shuffleNoSwapFrom(_, _, _)
shuffleNoSwapFrom(x, d, i) ==
  IF i < 2 THEN x
  ELSE shuffleNoSwapFrom(Assign(x, i, d[Len(x) - i + 1] + 1), d, i - 1)

shuffleNoSwap(x, d) == shuffleNoSwapFrom(x, d, Len(x))

\* the loop from index i down: x[i], x[j] = x[j], x[i]
RECURSIVE shuffleFrom(_, _, _)
shuffleFrom(x, d, i) ==
  IF i < 2 THEN x
  ELSE shuffleFrom(Swap(x, i, d[Len(x) - i + 1] + 1), d, i - 1)

shuffle(x, d) == shuffleFrom(x, d, Len(x))

(***************************************************************************)
(* split_list                                                              *)
(***************************************************************************)
\* list lengths the cut points are tabulated for
TableLen == MaxLen + MaxItems

\* abs(sum(ratios) - 1.0) < 1e-6; sum() adds left to right from the int 0
SumIsOne(ratios) ==
  FLess(FAbsDiff(FAdd(FAdd(Ratio(ratios[1]), Ratio(ratios[2])), Ratio(ratios[3])),
                 FromInt(1)),
        FromDecimal(1, 1000000))

\* int(n * ratios[0])
IntTrain(n, ratios) == FTrunc(FMulInt(n, Ratio(ratios[1])))

\* int(n * (ratios[0] + ratios[1]))
IntTrainVal(n, ratios) ==
  FTrunc(FMulInt(n, FAdd(Ratio(ratios[1]), Ratio(ratios[2]))))

\* the three float computations above, evaluated once per argument
ValidTable == [r \in RatioSets |-> SumIsOne(r)]

N1Table == [r \in RatioSets |-> [n \in 0..TableLen |-> IntTrain(n, r)]]

N2Table == [r \in RatioSets |-> [n \in 0..TableLen |-> IntTrainVal(n, r)]]

RatiosValid(ratios) == ValidTable[ratios]

\* the image module asserts the ratios, the video module does not
ChecksRatios(impl) == impl = "images"

n1(n, ratios) == N1Table[ratios][n]

n2(n, ratios) == N2Table[ratios][n]

\* the Python slice s[lo:hi] for 0 <= lo, hi
Slice(s, lo, hi) ==
  LET h == Min(hi, Len(s))
  IN  IF lo >= h THEN <<>> ELSE SubSeq(s, lo + 1, h)

\* split_list(items, ratios, seed) of module impl, d the generator's draws:
\* whether it raised, the caller's list afterwards, and the three slices
split_list(impl, items, ratios, d) ==
  IF ChecksRatios(impl) /\ ~RatiosValid(ratios)
  THEN [raised |-> TRUE, items |-> items,
        train |-> <<>>, val |-> <<>>, test |-> <<>>]
  ELSE LET x == shuffle(items, d)
           n == Len(x)
           a == n1(n, ratios)
           b == n2(n, ratios)
       IN  [raised |-> FALSE, items |-> x,
            train |-> Slice(x, 0, a), val |-> Slice(x, a, b),
            test |-> Slice(x, b, n)]

(***************************************************************************)
(* SplitSpec: split_list applied to one list object                        *)
(***************************************************************************)
InitSplit ==
  /\ mt = {}
  /\ sl_impl \in KINDS
  /\ \E n \in 0..MaxLen : sl_items = [i \in 1..n |-> i]
  /\ sl_ratios \in RatioSets
  /\ sl_seed \in Seeds
  /\ sl_calls = <<>>
  /\ kind = "images" /\ dry_run = TRUE /\ seed = 42 /\ src_exists = FALSE
  /\ tree = <<>> /\ ffmpeg_installed = FALSE /\ cv2_installed = FALSE
  /\ pc = "idle" /\ files_by_class = <<>> /\ use_ffmpeg = FALSE /\ probes = 0
  /\ nclasses = 0 /\ todo = <<>> /\ planned = <<>>
  /\ counts = [s \in {"train", "val", "test"} |-> 0]
  /\ fs_dirs = {} /\ fs_files = {} /\ calls = <<>> /\ open = {}

\* one call split_list(arg, sl_ratios, sl_seed); inplace tells whether the
\* caller's list object is the argument itself (it is then shuffled in place)
Call(arg, inplace) ==
  /\ Len(sl_calls) < MaxCalls
  /\ LET key == GeneratorKey(sl_seed, Len(sl_calls))
         n   == Len(arg)
     IN  \E d \in Generated(key, n) :
           LET r == split_list(sl_impl, arg, sl_ratios, d)
           IN  /\ sl_calls' = Append(sl_calls, [arg |-> arg, ret |-> r])
               /\ sl_items' = IF inplace THEN r.items ELSE sl_items
               /\ mt' = IF r.raised THEN mt
                        ELSE mt \cup {[key |-> key, n |-> n, d |-> d]}
  /\ UNCHANGED <<sl_impl, sl_ratios, sl_seed, envvars, mainvars, fxvars>>

\* split_list(items, ...): the list object itself is passed
CallSplitList == Call(sl_items, TRUE)

\* split_list(list(items), ...): a copy is passed, as main does
CallSplitListCopy == Call(sl_items, FALSE)

NextSplit == CallSplitList \/ CallSplitListCopy

SplitSpec == InitSplit /\ [][NextSplit]_vars

(***************************************************************************)
(* The source tree.  Directory names are character sequences, because the  *)
(* class label is computed character by character; a file is a stem and a  *)
(* suffix.                                                                 *)
(***************************************************************************)
NameA == <<"a">>

NameB == <<"b">>

\* one directory whose name holds a backslash (a legal POSIX file name)
NameAB == <<"a", "\\", "b">>

\* the directories of the tree, relative to src_root: ., a, a/b and a\b
SrcDirs == <<<<>>, <<NameA>>, <<NameA, NameB>>, <<NameAB>>>>

\* os.walk is top-down: a before a/b; the order of a and a\b is the host's
WalkOrders == {<<1, 2, 3, 4>>, <<1, 4, 2, 3>>}

FileX(k) == [stem |-> "x", ext |-> IF k = "images" THEN ".jpg" ELSE ".mp4"]

FileY(k) == [stem |-> "y", ext |-> IF k = "images" THEN ".JPG" ELSE ".MP4"]

FileN == [stem |-> "n", ext |-> ".txt"]

\* what one directory may hold
Listings(k) == {<<>>, <<FileX(k)>>, <<FileX(k), FileY(k)>>, <<FileN, FileY(k)>>}

IMAGE_EXTS == {".jpg", ".jpeg", ".png", ".bmp", ".tiff", ".webp"}

VIDEO_EXTS == {".mp4", ".mov", ".avi", ".mkv", ".webm", ".mpeg", ".mpg"}

\* str.lower on the suffixes of the model
lower(e) ==
  CASE e = ".JPG" -> ".jpg"
    [] e = ".MP4" -> ".mp4"
    [] OTHER -> e

\* is_image_file / is_video_file
is_media_file(k, f) ==
  lower(f.ext) \in (IF k = "images" THEN IMAGE_EXTS ELSE VIDEO_EXTS)

MediaOf(k, files) ==
  LET IsMedia(f) == is_media_file(k, f)
  IN  SelectSeq(files, IsMedia)

RECURSIVE SumLen(_, _)
SumLen(t, i) == IF i = 0 THEN 0 ELSE Len(t[i]) + SumLen(t, i - 1)

\* the trees of at most MaxItems media files, as os.walk lists them
Trees(k) ==
  {[i \in 1..4 |-> [dir |-> SrcDirs[w[i]], files |-> l[w[i]]]] :
     w \in WalkOrders,
     l \in {m \in [1..4 -> Listings(k)] :
              SumLen([j \in 1..4 |-> MediaOf(k, m[j])], 4) <= MaxItems}}

(***************************************************************************)
(* gather_image_files / gather_video_files                                 *)
(***************************************************************************)
RECURSIVE JoinSlash(_)
JoinSlash(parts) ==
  IF Len(parts) = 1 THEN parts[1]
  ELSE parts[1] \o <<"/">> \o JoinSlash(Tail(parts))

\* str(rel) of a relative path: "." when it has no parts
str(rel) == IF rel = <<>> THEN <<".">> ELSE JoinSlash(rel)

replace(t, old, new) == [i \in 1..Len(t) |-> IF t[i] = old THEN new ELSE t[i]]

\* class_label = str(rel).replace('\\', '/')
class_label(dir) == replace(str(dir), "\\", "/")

\* files_by_class.setdefault(class_label, []).extend(files)
Extend(fbc, label, files) ==
  IF \E i \in 1..Len(fbc) : fbc[i].label = label
  THEN [i \in 1..Len(fbc) |->
          IF fbc[i].label = label
          THEN [label |-> label, files |-> fbc[i].files \o files]
          ELSE fbc[i]]
  ELSE Append(fbc, [label |-> label, files |-> files])

\* the loop over os.walk(src_root), entries i.. of tree t, fbc the dict so far
RECURSIVE gatherFrom(_, _, _, _)
gatherFrom(k, t, i, fbc) ==
  IF i > Len(t) THEN fbc
  ELSE LET media == MediaOf(k, t[i].files)
           paths == [j \in 1..Len(media) |-> [dir |-> t[i].dir, file |-> media[j]]]
       IN  IF media = <<>> THEN gatherFrom(k, t, i + 1, fbc)
           ELSE gatherFrom(k, t, i + 1, Extend(fbc, class_label(t[i].dir), paths))

gather_files(k, t) == gatherFrom(k, t, 1, <<>>)

(***************************************************************************)
(* Destination paths                                                       *)
(***************************************************************************)
\* the pieces of a string between its "/" characters
RECURSIVE SplitSlash(_, _)
SplitSlash(t, cur) ==
  IF t = <<>> THEN <<cur>>
  ELSE IF Head(t) = "/" THEN <<cur>> \o SplitSlash(Tail(t), <<>>)
  ELSE SplitSlash(Tail(t), Append(cur, Head(t)))

\* the parts of Path(label): pathlib drops empty and "." components
PathParts(label) ==
  LET IsPart(c) == c # <<>> /\ c # <<".">>
  IN  SelectSeq(SplitSlash(label, <<>>), IsPart)

\* dst_path = out_root / split_name / kind / (Path(class_label) / src_path.name)
dst_path(k, split_name, label, src) ==
  [split |-> split_name, kind |-> k, dir |-> PathParts(label), name |-> src.file]

\* dst.parent.mkdir(parents=True, exist_ok=True)
Parents(dst) ==
  {[split |-> dst.split, kind |-> dst.kind, dir |-> SubSeq(dst.dir, 1, j)] :
     j \in 0..Len(dst.dir)}

\* mapping = [("train", ...), ("val", ...), ("test", ...)] of one class, in the
\* order the two inner loops visit it
Tagged(k, split_name, label, items) ==
  [i \in 1..Len(items) |->
     [split |-> split_name, src |-> items[i],
      dst |-> dst_path(k, split_name, label, items[i])]]

mapping(k, label, r) ==
  Tagged(k, "train", label, r.train) \o Tagged(k, "val", label, r.val)
    \o Tagged(k, "test", label, r.test)

(***************************************************************************)
(* Spec: one run of main()                                                 *)
(***************************************************************************)
Init ==
  /\ mt = {}
  /\ sl_impl = "images" /\ sl_items = <<>> /\ sl_ratios = DefaultRatios
  /\ sl_seed = 42 /\ sl_calls = <<>>
  /\ kind \in KINDS
  /\ dry_run \in BOOLEAN
  /\ seed \in Seeds
  /\ src_exists \in BOOLEAN
  /\ tree \in (IF src_exists THEN Trees(kind) ELSE {<<>>})
  /\ ffmpeg_installed \in (IF kind = "videos" THEN BOOLEAN ELSE {FALSE})
  /\ cv2_installed \in (IF kind = "videos" THEN BOOLEAN ELSE {FALSE})
  /\ pc = "start"
  /\ files_by_class = <<>>
  /\ use_ffmpeg = FALSE
  /\ probes = 0
  /\ nclasses = 0
  /\ todo = <<>>
  /\ planned = <<>>
  /\ counts = [s \in {"train", "val", "test"} |-> 0]
  /\ fs_dirs = {} /\ fs_files = {} /\ calls = <<>> /\ open = {}

\* if not src_root.exists(): sys.exit(1)
SourceNotFound ==
  /\ pc = "start" /\ ~src_exists
  /\ pc' = "exit1"
  /\ UNCHANGED <<mt, slvars, envvars, fxvars, files_by_class, use_ffmpeg,
                 probes, nclasses, todo, planned, counts>>

\* files_by_class = gather_..._files(src_root)
Gather ==
  /\ pc = "start" /\ src_exists
  /\ files_by_class' = gather_files(kind, tree)
  /\ pc' = IF kind = "videos" THEN "probe" ELSE "loop"
  /\ UNCHANGED <<mt, slvars, envvars, fxvars, use_ffmpeg, probes, nclasses,
                 todo, planned, counts>>

\* subprocess.run(["ffmpeg", "-version"]) starts iff ffmpeg is installed
ffmpeg_available == ffmpeg_installed

\* use_ffmpeg = ffmpeg_available()
Probe ==
  /\ pc = "probe"
  /\ use_ffmpeg' = ffmpeg_available
  /\ probes' = probes + 1
  /\ pc' = "loop"
  /\ UNCHANGED <<mt, slvars, envvars, fxvars, files_by_class, nclasses, todo,
                 planned, counts>>

\* the next class: split_list(list(file_list), ratios=(0.7,0.2,0.1), seed=args.seed)
SplitClass ==
  /\ pc = "loop" /\ todo = <<>> /\ nclasses < Len(files_by_class)
  /\ LET c   == files_by_class[nclasses + 1]
         n   == Len(c.files)
         key == GeneratorKey(seed, nclasses)
     IN  \E d \in Generated(key, n) :
           LET r == split_list(kind, c.files, DefaultRatios, d)
           IN  IF r.raised
               THEN /\ pc' = "crashed"
                    /\ UNCHANGED <<mt, nclasses, todo, planned>>
               ELSE /\ pc' = pc
                    /\ mt' = mt \cup {[key |-> key, n |-> n, d |-> d]}
                    /\ nclasses' = nclasses + 1
                    /\ todo' = mapping(kind, c.label, r)
                    /\ planned' = planned \o mapping(kind, c.label, r)
  /\ UNCHANGED <<slvars, envvars, fxvars, files_by_class, use_ffmpeg, probes, counts>>

\* counts[split_name] += 1
Count(split_name) == [counts EXCEPT ![split_name] = @ + 1]

\* the item loop without its dry-run test
SkippedNever == FALSE

\* if args.dry_run: continue
Skipped == dry_run

\* a dry-run pass that leaves the loop before counting
ItemDryRunUncounted ==
  /\ pc = "loop" /\ todo # <<>> /\ Skipped
  /\ todo' = Tail(todo)
  /\ UNCHANGED <<mt, slvars, envvars, fxvars, pc, files_by_class, use_ffmpeg,
                 probes, nclasses, planned, counts>>

\* one pass of the item loop in a dry run
ItemDryRun ==
  /\ pc = "loop" /\ todo # <<>> /\ Skipped
  /\ counts' = Count(Head(todo).split)
  /\ todo' = Tail(todo)
  /\ UNCHANGED <<mt, slvars, envvars, fxvars, pc, files_by_class, use_ffmpeg,
                 probes, nclasses, planned>>

\* the record of one transform call
Called(fn, it, result) ==
  Append(calls, [fn |-> fn, src |-> it.src, dst |-> it.dst, result |-> result])

\* one pass of the item loop of the image script: resize_and_save.  mkdir is
\* outside the try block, so its OSError propagates; every exception of
\* open / convert / resize / save is caught and printed
ItemResize ==
  /\ pc = "loop" /\ todo # <<>> /\ ~Skipped /\ kind = "images"
  /\ LET it == Head(todo)
     IN  /\ counts' = Count(it.split)
         /\ todo' = Tail(todo)
         /\ \E outcome \in {"mkdir_error", "saved", "warned"} :
              /\ calls' = Called("resize_and_save", it,
                                 IF outcome = "mkdir_error" THEN "raised"
                                 ELSE IF outcome = "saved" THEN "ok" ELSE "failed")
              /\ pc' = IF outcome = "mkdir_error" THEN "crashed" ELSE pc
              /\ fs_dirs' = IF outcome = "mkdir_error" THEN fs_dirs
                            ELSE fs_dirs \cup Parents(it.dst)
              /\ fs_files' = IF outcome = "saved" THEN fs_files \cup {it.dst}
                             ELSE fs_files
  /\ UNCHANGED <<mt, slvars, envvars, open, files_by_class, use_ffmpeg, probes,
                 nclasses, planned>>

\* a loop body that hands the item to the other backend when ffmpeg fails
FfmpegCallsFallback(it, result) ==
  IF result = "failed"
  THEN Append(Called("reencode_with_ffmpeg", it, result),
              [fn |-> "reencode_with_opencv", src |-> it.src, dst |-> it.dst,
               result |-> "failed"])
  ELSE Called("reencode_with_ffmpeg", it, result)

\* ok = reencode_with_ffmpeg(...); if not ok: print a warning
FfmpegCalls(it, result) == Called("reencode_with_ffmpeg", it, result)

\* one pass of the item loop of the video script with use_ffmpeg:
\* reencode_with_ffmpeg.  Only CalledProcessError is caught
ItemFfmpeg ==
  /\ pc = "loop" /\ todo # <<>> /\ ~Skipped /\ kind = "videos" /\ use_ffmpeg
  /\ LET it == Head(todo)
     IN  /\ counts' = Count(it.split)
         /\ todo' = Tail(todo)
         /\ \E outcome \in {"mkdir_error", "encoded", "nonzero_exit"} :
              /\ calls' = FfmpegCalls(it,
                                 IF outcome = "mkdir_error" THEN "raised"
                                 ELSE IF outcome = "encoded" THEN "ok" ELSE "failed")
              /\ pc' = IF outcome = "mkdir_error" THEN "crashed" ELSE pc
              /\ fs_dirs' = IF outcome = "mkdir_error" THEN fs_dirs
                            ELSE fs_dirs \cup Parents(it.dst)
              /\ fs_files' = IF outcome = "encoded" THEN fs_files \cup {it.dst}
                             ELSE fs_files
  /\ UNCHANGED <<mt, slvars, envvars, open, files_by_class, use_ffmpeg, probes,
                 nclasses, planned>>

\* one pass of the item loop of the video script without use_ffmpeg:
\* reencode_with_opencv.  ImportError and an unopened capture return False;
\* nothing else is caught, and the frame loop uses np, which the module
\* never imports, so the first frame read raises NameError before the two
\* release() calls
ItemOpencv ==
  /\ pc = "loop" /\ todo # <<>> /\ ~Skipped /\ kind = "videos" /\ ~use_ffmpeg
  /\ LET it  == Head(todo)
         cap == [src |-> it.src, handle |-> "cap"]
         out == [src |-> it.src, handle |-> "out"]
     IN  /\ counts' = Count(it.split)
         /\ todo' = Tail(todo)
         /\ \E outcome \in (IF cv2_installed
                            THEN {"not_opened", "mkdir_error", "no_frames", "frame"}
                            ELSE {"import_error"}) :
              /\ calls' = Called("reencode_with_opencv", it,
                                 IF outcome \in {"mkdir_error", "frame"} THEN "raised"
                                 ELSE IF outcome = "no_frames" THEN "ok" ELSE "failed")
              /\ pc' = IF outcome \in {"mkdir_error", "frame"} THEN "crashed" ELSE pc
              /\ open' = IF outcome = "mkdir_error" THEN open \cup {cap}
                         ELSE IF outcome = "frame" THEN open \cup {cap, out}
                         ELSE open
              /\ fs_dirs' = IF outcome \in {"no_frames", "frame"}
                            THEN fs_dirs \cup Parents(it.dst) ELSE fs_dirs
              /\ fs_files' = IF outcome \in {"no_frames", "frame"}
                             THEN fs_files \cup {it.dst} ELSE fs_files
  /\ UNCHANGED <<mt, slvars, envvars, files_by_class, use_ffmpeg, probes,
                 nclasses, planned>>

\* print("Done. Counts:", counts)
Finish ==
  /\ pc = "loop" /\ todo = <<>> /\ nclasses = Len(files_by_class)
  /\ pc' = "done"
  /\ UNCHANGED <<mt, slvars, envvars, fxvars, files_by_class, use_ffmpeg,
                 probes, nclasses, todo, planned, counts>>

Next ==
  \/ SourceNotFound
  \/ Gather
  \/ Probe
  \/ SplitClass
  \/ ItemDryRun
  \/ ItemResize
  \/ ItemFfmpeg
  \/ ItemOpencv
  \/ Finish

Spec == Init /\ [][Next]_vars

(***************************************************************************)
(* Properties of split_list, checked under SplitSpec                       *)
(***************************************************************************)
\* the calls that returned
Returned == {i \in 1..Len(sl_calls) : ~sl_calls[i].ret.raised}

Occurrences(t, x) == Cardinality({i \in 1..Len(t) : t[i] = x})

\* the three slices a call returned
Out(i) == <<sl_calls[i].ret.train, sl_calls[i].ret.val, sl_calls[i].ret.test>>

\* C1: split_list returns three pairwise disjoint sequences whose multiset
\* union is the item list it was given and whose lengths add up to n: every
\* item lands in exactly one split.
C1_PartitionComplete ==
  \A i \in Returned :
    LET arg == sl_calls[i].arg
        r   == sl_calls[i].ret
        all == r.train \o r.val \o r.test
    IN  /\ \A x \in Range(arg) \cup Range(all) :
             Occurrences(all, x) = Occurrences(arg, x)
        /\ Range(r.train) \cap Range(r.val) = {}
        /\ Range(r.train) \cap Range(r.test) = {}
        /\ Range(r.val) \cap Range(r.test) = {}
        /\ Len(r.train) + Len(r.val) + Len(r.test) = Len(arg)

\* a call that reordered its list and returned three non-empty slices
C1_Witness ==
  \E i \in Returned :
    /\ Len(sl_calls[i].arg) >= 4
    /\ sl_calls[i].ret.items # sl_calls[i].arg
    /\ sl_calls[i].ret.train # <<>>
    /\ sl_calls[i].ret.val # <<>>
    /\ sl_calls[i].ret.test # <<>>

\* C2: for ratios (0.7, 0.2, 0.1) and every class size n, len(train) is
\* floor(0.7n), len(val) is floor(0.9n) - floor(0.7n) and len(test) is the
\* rest; a class of 10 items is split into sizes (7, 2, 1).
C2_Proportional ==
  \A i \in Returned :
    sl_ratios = DefaultRatios =>
      LET n == Len(sl_calls[i].arg)
          r == sl_calls[i].ret
      IN  /\ Len(r.train) = (7 * n) \div 10
          /\ Len(r.val) = ((9 * n) \div 10) - ((7 * n) \div 10)
          /\ Len(r.test) = n - Len(r.train) - Len(r.val)

\* C4: split_list of either script fails when the ratios do not sum to 1.0
\* within 1e-6, and it fails before it shuffles or splits anything.
C4_InvalidRatiosRejected ==
  \A i \in 1..Len(sl_calls) :
    ~RatiosValid(sl_ratios) =>
      /\ sl_calls[i].ret.raised
      /\ sl_calls[i].ret.items = sl_calls[i].arg

\* C5, as claimed: successive calls with the same seed on the same list return
\* the same three sequences.
C5_SameListSameResult ==
  \A i, j \in 1..Len(sl_calls) : Out(i) = Out(j)

\* C5, amended: two calls that are given equal item sequences (and the same
\* ratios and seed) return the same three sequences.
C5_Deterministic ==
  \A i, j \in 1..Len(sl_calls) :
    sl_calls[i].arg = sl_calls[j].arg => Out(i) = Out(j)

\* two calls on equal sequences of at least 3 items, each of which reordered
\* its argument
C5_Witness ==
  \E i, j \in Returned :
    /\ i < j
    /\ sl_calls[i].arg = sl_calls[j].arg
    /\ Len(sl_calls[i].arg) >= 3
    /\ sl_calls[i].ret.items # sl_calls[i].arg

(***************************************************************************)
(* Properties of a run, checked under Spec                                 *)
(***************************************************************************)
SPLITS == {"train", "val", "test"}

\* the media files gather finds in the tree
Discovered == SumLen([j \in 1..Len(tree) |-> MediaOf(kind, tree[j].files)], Len(tree))

PlannedFor(s) == Cardinality({i \in 1..Len(planned) : planned[i].split = s})

\* C3: once the source root exists, no failure of an item's transform leaves
\* the item boundary: no transform call raises into main, the run never
\* stops before the summary, and a finished run has visited every planned item.
C3_FailureIsolation ==
  /\ pc # "crashed"
  /\ \A i \in 1..Len(calls) : calls[i].result # "raised"
  /\ pc = "done" =>
       counts["train"] + counts["val"] + counts["test"] = Len(planned)

\* C6: in a run started with --dry_run no transform is called and nothing is
\* created under output_root, while every planned item is still visited.
C6_DryRunWritesNothing ==
  dry_run =>
    /\ calls = <<>>
    /\ fs_dirs = {}
    /\ fs_files = {}
    /\ open = {}
    /\ pc = "done" =>
         counts["train"] + counts["val"] + counts["test"] = Discovered

\* a finished dry run over at least 3 items
C6_Witness == dry_run /\ pc = "done" /\ Len(planned) >= 3

Backend == IF use_ffmpeg THEN "reencode_with_ffmpeg" ELSE "reencode_with_opencv"

C8_CountsArePlanned ==
  pc = "done" =>
    /\ \A s \in SPLITS : counts[s] = PlannedFor(s)
    /\ counts["train"] + counts["val"] + counts["test"] = Discovered

\* a finished real run with a failed transform and items in two splits
C8_Witness ==
  /\ pc = "done" /\ ~dry_run
  /\ \E i \in 1..Len(calls) : calls[i].result = "failed"
  /\ counts["train"] >= 1 /\ counts["test"] >= 1

\* C9: every handle an item's transform acquired is released when that
\* transform is left, on every exit path, so no handle is open between items
\* or after the run.
C9_HandlesReleased == open = {}

\* C10: no two distinct collected source files are assigned the same
\* destination path.
C10_DestinationsInjective ==
  \A i, j \in 1..Len(planned) :
    planned[i].src # planned[j].src => planned[i].dst # planned[j].dst

====
